---- MODULE Spec2Model ----
(***************************************************************************)
(* terminal-io: capability detection (config.rs) and the decorators that   *)
(* cache its result (terminal_reader.rs, terminal_writer.rs,               *)
(* terminal_duplexer.rs), with the end-of-stream reset of the duplexer,    *)
(* and the never-a-terminal wrappers (never_terminal_*.rs).                *)
(*                                                                         *)
(* Both build configurations of config.rs are modelled; `env.platform`     *)
(* selects the #[cfg(not(windows))] or the #[cfg(windows)] items.          *)
(***************************************************************************)
EXTENDS Integers, Sequences, FiniteSets, TLC

VARIABLES
    env,      \* process environment: build platform, NO_COLOR, terminfo database
    inner,    \* the wrapped resource: its handles, what they are attached to, its input
    kind,     \* which decorator wraps `inner` ("none" before construction)
    ctor,     \* the constructor that built it
    aborted,  \* the process panicked inside the constructor's probe
    read_config,   \* Option<ReadConfig> of the decorator
    write_config,  \* Option<WriteConfig> of the decorator
    probes,   \* OS / library queries made by the constructor, in order
    last,     \* the last I/O operation: inner result, returned result, inner calls
    resets    \* number of reset writes made to the inner resource so far

vars == <<env, inner, kind, ctor, aborted, read_config, write_config, probes, last, resets>>

(***************************************************************************)
(* Bounds                                                                  *)
(***************************************************************************)
MaxHandle == 3      \* handles (file descriptors) are 0..MaxHandle
MaxInput == 1       \* bytes the inner resource holds before end-of-stream
MaxLen == 1         \* length of a caller's buffer
MaxResets == 2      \* reset writes observed over a decorator's lifetime

Handles == 0..MaxHandle

\* The process's standard streams, as raw handles.
stdin == 0
stdout == 1
stderr == 2

(***************************************************************************)
(* Option<T>: None is the empty sequence, Some(x) a one-element sequence.  *)
(***************************************************************************)
None == <<>>
Some(x) == <<x>>
is_some(o) == o # <<>>
unwrap(o) == o[1]

(***************************************************************************)
(* TerminalColorSupport and the two config structs                         *)
(***************************************************************************)
TerminalColorSupport == {"Monochrome", "Classic8", "ColorCube256", "TrueColor"}
TerminalColorSupport_default == "Monochrome"

ReadConfig(lbl) == [line_by_line |-> lbl]
WriteConfig(cs, cp) == [color_support |-> cs, color_preference |-> cp]

(***************************************************************************)
(* The environment the probe consults.                                     *)
(*   terminfo.db         Database::from_env() succeeded                    *)
(*   terminfo.max_colors the MaxColors capability, if the entry has one    *)
(***************************************************************************)
ColorCounts == {-1, 8, 16, 256}
Terminfos ==
    {[db |-> FALSE, max_colors |-> None]}
    \cup {[db |-> TRUE, max_colors |-> m] : m \in {None} \cup {Some(n) : n \in ColorCounts}}
Platforms == {"posix", "windows"}
\* The terminfo database is consulted by the not(windows) build only.
Envs ==
    {e \in [platform : Platforms, no_color : BOOLEAN, terminfo : Terminfos] :
        e.platform = "windows" => e.terminfo = [db |-> FALSE, max_colors |-> None]}

(***************************************************************************)
(* The wrapped resource.  rh / wh are the handles of its read and write    *)
(* side (equal for a single bidirectional device), rtty / wtty say whether *)
(* each is attached to a terminal, canon whether the read side's terminal  *)
(* is in canonical mode, input how many bytes remain before end-of-stream. *)
(* Handles above stderr are interchangeable, so a resource takes the       *)
(* lowest of them, the read side first.                                    *)
(***************************************************************************)
Resources ==
    {r \in [rh : Handles, wh : Handles, rtty : BOOLEAN, wtty : BOOLEAN,
            canon : BOOLEAN, input : 0..MaxInput] :
        /\ r.rh = r.wh => r.rtty = r.wtty
        /\ r.canon => r.rtty
        /\ \A h \in {r.rh, r.wh} : h > stderr + 1 => h - 1 \in {r.rh, r.wh}
        /\ r.rh > stderr /\ r.wh > stderr => r.rh <= r.wh}

Isatty(res, h) == (h = res.rh /\ res.rtty) \/ (h = res.wh /\ res.wtty)
Icanon(res, h) == h = res.rh /\ res.canon

as_unsafe_read_handle(res) == res.rh
as_unsafe_write_handle(res) == res.wh

\* One query of the OS or of a library, as recorded in `probes`.
Call(name, h) == [call |-> name, h |-> h]
TerminalChecks == {"tcgetattr", "isatty", "atty"}

(***************************************************************************)
(* config.rs                                                               *)
(* Every probe returns the config together with the queries it made and    *)
(* whether it panicked.                                                    *)
(***************************************************************************)
detect_stdio_color_preference(e) == ~e.no_color

\* The match with a further arm that classifies 16 instead of panicking.
MatchColorCount_16(num) ==
    CASE num = -1 -> [cs |-> "Monochrome", panic |-> FALSE]
      [] num = 8 -> [cs |-> "Classic8", panic |-> FALSE]
      [] num = 16 -> [cs |-> "Classic8", panic |-> FALSE]
      [] num = 256 -> [cs |-> "ColorCube256", panic |-> FALSE]
      [] OTHER -> [cs |-> TerminalColorSupport_default, panic |-> TRUE]

\* match num { -1 => .., 8 => .., 256 => .., _ => panic!(..) }
MatchColorCount(num) ==
    CASE num = -1 -> [cs |-> "Monochrome", panic |-> FALSE]
      [] num = 8 -> [cs |-> "Classic8", panic |-> FALSE]
      [] num = 256 -> [cs |-> "ColorCube256", panic |-> FALSE]
      [] OTHER -> [cs |-> TerminalColorSupport_default, panic |-> TRUE]

\* #[cfg(not(windows))] _detect_read_config
_detect_read_config(e, res, raw_fd) ==
    [cfg |-> IF Isatty(res, raw_fd)
             THEN Some(ReadConfig(Icanon(res, raw_fd)))
             ELSE None,
     log |-> <<Call("tcgetattr", raw_fd)>>,
     panic |-> FALSE]

\* #[cfg(windows)] _detect_read_config
_detect_read_config_windows(e, res, h) ==
    LET asked == h = stdin
        isatty == IF asked THEN Isatty(res, h) ELSE FALSE
    IN [cfg |-> IF isatty THEN Some(ReadConfig(FALSE)) ELSE None,
        log |-> IF asked THEN <<Call("atty", h)>> ELSE <<>>,
        panic |-> FALSE]

\* _detect_write_config_isatty classifying every other terminal as Classic8.
_detect_write_config_isatty_classic8(e, res, raw_fd) ==
    IF raw_fd = stdout
    THEN IF ~e.terminfo.db
         THEN [cfg |-> WriteConfig(TerminalColorSupport_default, FALSE),
               log |-> <<Call("terminfo", raw_fd)>>,
               panic |-> TRUE]
         ELSE LET m == IF is_some(e.terminfo.max_colors)
                       THEN MatchColorCount(unwrap(e.terminfo.max_colors))
                       ELSE [cs |-> TerminalColorSupport_default, panic |-> FALSE]
              IN IF m.panic
                 THEN [cfg |-> WriteConfig(TerminalColorSupport_default, FALSE),
                       log |-> <<Call("terminfo", raw_fd)>>,
                       panic |-> TRUE]
                 ELSE [cfg |-> WriteConfig(m.cs, detect_stdio_color_preference(e)),
                       log |-> <<Call("terminfo", raw_fd), Call("getenv", raw_fd)>>,
                       panic |-> FALSE]
    ELSE [cfg |-> WriteConfig("Classic8", FALSE),
          log |-> <<>>,
          panic |-> FALSE]

\* #[cfg(not(windows))] _detect_write_config_isatty
_detect_write_config_isatty(e, res, raw_fd) ==
    IF raw_fd = stdout
    THEN IF ~e.terminfo.db
         THEN \* Database::from_env().unwrap()
              [cfg |-> WriteConfig(TerminalColorSupport_default, FALSE),
               log |-> <<Call("terminfo", raw_fd)>>,
               panic |-> TRUE]
         ELSE LET m == IF is_some(e.terminfo.max_colors)
                       THEN MatchColorCount(unwrap(e.terminfo.max_colors))
                       ELSE [cs |-> TerminalColorSupport_default, panic |-> FALSE]
              IN IF m.panic
                 THEN [cfg |-> WriteConfig(TerminalColorSupport_default, FALSE),
                       log |-> <<Call("terminfo", raw_fd)>>,
                       panic |-> TRUE]
                 ELSE [cfg |-> WriteConfig(m.cs, detect_stdio_color_preference(e)),
                       log |-> <<Call("terminfo", raw_fd), Call("getenv", raw_fd)>>,
                       panic |-> FALSE]
    ELSE [cfg |-> WriteConfig(TerminalColorSupport_default, FALSE),
          log |-> <<>>,
          panic |-> FALSE]

\* #[cfg(windows)] _detect_write_config_isatty
_detect_write_config_isatty_windows(h, color_preference) ==
    [cfg |-> WriteConfig("Classic8", color_preference),
     log |-> <<>>,
     panic |-> FALSE]

\* #[cfg(not(windows))] _detect_write_config
_detect_write_config(e, res, raw_fd) ==
    IF Isatty(res, raw_fd)
    THEN LET w == _detect_write_config_isatty(e, res, raw_fd)
         IN [cfg |-> Some(w.cfg),
             log |-> <<Call("isatty", raw_fd)>> \o w.log,
             panic |-> w.panic]
    ELSE [cfg |-> None, log |-> <<Call("isatty", raw_fd)>>, panic |-> FALSE]

\* #[cfg(windows)] _detect_write_config
\* (a socket has no raw handle and takes the same (false, false) arm as a
\* handle that is neither standard output nor standard error)
_detect_write_config_windows(e, res, h) ==
    LET asked == h = stdout \/ h = stderr
        isatty == IF asked THEN Isatty(res, h) ELSE FALSE
        color_preference == IF asked THEN detect_stdio_color_preference(e) ELSE FALSE
        log == IF asked THEN <<Call("atty", h), Call("getenv", h)>> ELSE <<>>
    IN IF isatty
       THEN [cfg |-> Some(_detect_write_config_isatty_windows(h, color_preference).cfg),
             log |-> log,
             panic |-> FALSE]
       ELSE [cfg |-> None, log |-> log, panic |-> FALSE]

detect_read_config(e, res, h) ==
    IF e.platform = "windows"
    THEN _detect_read_config_windows(e, res, h)
    ELSE _detect_read_config(e, res, h)

detect_write_config(e, res, h) ==
    IF e.platform = "windows"
    THEN _detect_write_config_windows(e, res, h)
    ELSE _detect_write_config(e, res, h)

\* The aliased branch querying the write side's terminal-ness again.
KnownIsattyWriteConfig_recheck(e, res, wh) == detect_write_config(e, res, wh)

\* The write config of the aliased branch when the read side is a terminal.
KnownIsattyWriteConfig(e, res, wh) ==
    IF e.platform = "windows"
    THEN LET asked == wh = stdout \/ wh = stderr
             color_preference ==
                 IF asked THEN detect_stdio_color_preference(e) ELSE FALSE
             w == _detect_write_config_isatty_windows(wh, color_preference)
         IN [cfg |-> Some(w.cfg),
             log |-> IF asked THEN <<Call("getenv", wh)>> ELSE <<>>,
             panic |-> FALSE]
    ELSE LET w == _detect_write_config_isatty(e, res, wh)
         IN [cfg |-> Some(w.cfg), log |-> w.log, panic |-> w.panic]

\* The write-side handle taken from the resource's write side.
unsafe_write_handle_write_side(res) == as_unsafe_write_handle(res)

\* The handle detect_read_write_config takes for the write side
\* (config.rs:63 calls as_unsafe_read_handle for it).
unsafe_write_handle(res) == as_unsafe_read_handle(res)

\* detect_read_write_config taking the write config to be absent when the
\* aliased read side is not a terminal.
detect_read_write_config_assume_absent(e, res) ==
    LET unsafe_read_handle == as_unsafe_read_handle(res)
        wh == unsafe_write_handle(res)
        r == detect_read_config(e, res, unsafe_read_handle)
        w == IF wh = unsafe_read_handle
             THEN IF is_some(r.cfg)
                  THEN KnownIsattyWriteConfig(e, res, wh)
                  ELSE [cfg |-> None, log |-> <<>>, panic |-> FALSE]
             ELSE detect_write_config(e, res, wh)
    IN [rc |-> r.cfg, wc |-> w.cfg, log |-> r.log \o w.log, panic |-> w.panic]

detect_read_write_config(e, res) ==
    LET unsafe_read_handle == as_unsafe_read_handle(res)
        wh == unsafe_write_handle(res)
        r == detect_read_config(e, res, unsafe_read_handle)
        w == IF wh = unsafe_read_handle
             THEN IF is_some(r.cfg)
                  THEN KnownIsattyWriteConfig(e, res, wh)
                  ELSE detect_write_config(e, res, wh)
             ELSE detect_write_config(e, res, wh)
    IN [rc |-> r.cfg, wc |-> w.cfg, log |-> r.log \o w.log, panic |-> w.panic]

(***************************************************************************)
(* Capability queries (ReadTerminal / WriteTerminal)                       *)
(***************************************************************************)
is_input_terminal == is_some(read_config)
is_line_by_line == IF is_some(read_config) THEN unwrap(read_config).line_by_line ELSE FALSE
is_output_terminal == is_some(write_config)
color_support ==
    IF is_some(write_config) THEN unwrap(write_config).color_support
    ELSE TerminalColorSupport_default
\* color_preference defaulting to true when the config is absent.
color_preference_default_true ==
    IF is_some(write_config) THEN unwrap(write_config).color_preference ELSE TRUE

color_preference ==
    IF is_some(write_config) THEN unwrap(write_config).color_preference ELSE FALSE

(***************************************************************************)
(* Results of I/O calls: Ok(n) or Err(kind); Ok(()) is Ok(0).              *)
(***************************************************************************)
Ok(n) == [ok |-> TRUE, n |-> n, kind |-> "-"]
Err(k) == [ok |-> FALSE, n |-> 0, kind |-> k]

Min(a, b) == IF a < b THEN a ELSE b

\* "\x1b[!p\r\x1b[K".as_bytes()
ResetSeq == <<27, 91, 33, 112, 13, 27, 91, 75>>

\* One call made on the inner resource: which method, the bytes handed to it
\* (writes only) and what it returned.
Event(call, buf, ret) == [call |-> call, buf |-> buf, ret |-> ret]

(***************************************************************************)
(* The inner resource's own behaviour (an external collaborator): the      *)
(* results each of its methods can produce, and the input left afterwards. *)
(***************************************************************************)
InnerRead(res, len) ==
    {Err("Other")} \cup
    (IF len = 0 \/ res.input = 0 THEN {Ok(0)}
     ELSE {Ok(n) : n \in 1..Min(len, res.input)})
InnerReadExact(res, len) ==
    {Err("Other")} \cup
    (IF len <= res.input THEN {Ok(0)} ELSE {Err("UnexpectedEof")})
InnerReadToEnd(res) == {Err("Other"), Ok(res.input)}
InnerReadToString(res) == {Err("Other"), Err("InvalidData"), Ok(res.input)}
InnerWrite(buf) == {Err("Other"), Ok(Len(buf) \div 2), Ok(Len(buf))}
\* Results of the write a reset makes, if the decorator makes one.
ResetWrite == IF is_output_terminal THEN InnerWrite(ResetSeq) ELSE {Ok(0)}
InnerFlush == {Err("Other"), Ok(0)}

\* Input left in the resource after a read-side call with result r.
InputAfter(res, call, len, r) ==
    CASE call \in {"read", "read_vectored"} -> res.input - r.n
      [] call = "read_exact" ->
            IF r.ok THEN res.input - len
            ELSE IF r.kind = "UnexpectedEof" THEN 0 ELSE res.input
      [] OTHER -> IF r.ok \/ r.kind = "InvalidData" THEN 0 ELSE res.input

(***************************************************************************)
(* terminal_duplexer.rs                                                    *)
(* Each method is given the result r of the inner call it makes and the    *)
(* result w the inner write would produce, and yields the value returned   *)
(* to the caller with the calls made on the inner resource, in order.      *)
(***************************************************************************)
\* TerminalDuplexer::write
write(buf, w) == [ret |-> w, events |-> <<Event("write", buf, w)>>]

\* TerminalDuplexer::flush
flush(w) == [ret |-> w, events |-> <<Event("flush", <<>>, w)>>]

\* TerminalDuplexer::reset
reset(w) ==
    IF is_output_terminal
    THEN write(ResetSeq, w).events
    ELSE <<>>

\* read resetting on every zero-length result, an empty buffer included.
read_reset_on_empty(len, r, w) ==
    IF r.ok /\ r.n = 0
    THEN [ret |-> Ok(0), events |-> <<Event("read", <<>>, r)>> \o reset(w)]
    ELSE [ret |-> r, events |-> <<Event("read", <<>>, r)>>]

\* TerminalDuplexer::read
read(len, r, w) ==
    IF r.ok /\ r.n = 0 /\ len # 0
    THEN [ret |-> Ok(0), events |-> <<Event("read", <<>>, r)>> \o reset(w)]
    ELSE [ret |-> r, events |-> <<Event("read", <<>>, r)>>]

\* TerminalDuplexer::read_vectored
read_vectored(lens, r, w) ==
    IF r.ok /\ r.n = 0 /\ (\E i \in 1..Len(lens) : lens[i] # 0)
    THEN [ret |-> Ok(0), events |-> <<Event("read_vectored", <<>>, r)>> \o reset(w)]
    ELSE [ret |-> r, events |-> <<Event("read_vectored", <<>>, r)>>]

\* read_to_end issuing the reset before the inner read has returned.
read_to_end_reset_first(r, w) ==
    IF r.ok
    THEN [ret |-> Ok(r.n), events |-> reset(w) \o <<Event("read_to_end", <<>>, r)>>]
    ELSE [ret |-> Err(r.kind), events |-> <<Event("read_to_end", <<>>, r)>>]

\* TerminalDuplexer::read_to_end
read_to_end(r, w) ==
    IF r.ok
    THEN [ret |-> Ok(r.n), events |-> <<Event("read_to_end", <<>>, r)>> \o reset(w)]
    ELSE [ret |-> Err(r.kind), events |-> <<Event("read_to_end", <<>>, r)>>]

\* TerminalDuplexer::read_to_string
read_to_string(r, w) ==
    IF r.ok
    THEN [ret |-> Ok(r.n), events |-> <<Event("read_to_string", <<>>, r)>> \o reset(w)]
    ELSE [ret |-> Err(r.kind), events |-> <<Event("read_to_string", <<>>, r)>>]

\* read_exact letting a failed reset write replace the read's error.
read_exact_reset_error(len, r, w) ==
    IF r.ok
    THEN [ret |-> Ok(0), events |-> <<Event("read_exact", <<>>, r)>>]
    ELSE [ret |-> IF r.kind = "UnexpectedEof" /\ reset(w) # <<>> /\ ~w.ok
                  THEN Err(w.kind) ELSE Err(r.kind),
          events |-> <<Event("read_exact", <<>>, r)>>
                     \o (IF r.kind = "UnexpectedEof" THEN reset(w) ELSE <<>>)]

\* TerminalDuplexer::read_exact
read_exact(len, r, w) ==
    IF r.ok
    THEN [ret |-> Ok(0), events |-> <<Event("read_exact", <<>>, r)>>]
    ELSE [ret |-> Err(r.kind),
          events |-> <<Event("read_exact", <<>>, r)>>
                     \o (IF r.kind = "UnexpectedEof" THEN reset(w) ELSE <<>>)]

(***************************************************************************)
(* terminal_reader.rs, terminal_writer.rs, never_terminal_*.rs             *)
(* Every Read / Write method of these wrappers is the same call on         *)
(* self.inner: given the result r of that call, the value returned and the *)
(* call made.                                                              *)
(***************************************************************************)
\* A forwarder that turns an inner error into Ok(0).
forward_swallow_error(call, buf, r) ==
    [ret |-> IF r.ok THEN r ELSE Ok(0), events |-> <<Event(call, buf, r)>>]

forward(call, buf, r) == [ret |-> r, events |-> <<Event(call, buf, r)>>]

ReadForwarders == {"TerminalReader", "NeverTerminalReader", "NeverTerminalDuplexer"}
WriteForwarders == {"TerminalWriter", "NeverTerminalWriter", "NeverTerminalDuplexer"}
NeverTerminals == {"NeverTerminalReader", "NeverTerminalWriter", "NeverTerminalDuplexer"}

(***************************************************************************)
(* The capability queries of whichever wrapper is installed: the           *)
(* NeverTerminal* wrappers answer with constants, WriteTerminal supplies   *)
(* color_default.                                                          *)
(***************************************************************************)
wrapper_is_input_terminal == IF kind \in NeverTerminals THEN FALSE ELSE is_input_terminal
wrapper_is_line_by_line == IF kind \in NeverTerminals THEN FALSE ELSE is_line_by_line
wrapper_is_output_terminal == IF kind \in NeverTerminals THEN FALSE ELSE is_output_terminal
wrapper_color_support ==
    IF kind \in NeverTerminals THEN TerminalColorSupport_default ELSE color_support
wrapper_color_preference == IF kind \in NeverTerminals THEN FALSE ELSE color_preference

\* color_default joining the two conditions with "or".
color_default_or == wrapper_color_support # "Monochrome" \/ wrapper_color_preference

\* WriteTerminal::color_default
color_default == wrapper_color_support # "Monochrome" /\ wrapper_color_preference

(***************************************************************************)
(* State machine                                                           *)
(***************************************************************************)
NoOp == [op |-> "-", lens |-> <<>>, inner |-> Ok(0), ret |-> Ok(0), events |-> <<>>]

\* Writes of the reset sequence among the calls of one operation.
ResetWrites(events) ==
    {i \in 1..Len(events) : events[i].call = "write" /\ events[i].buf = ResetSeq}

\* Buffers a caller reads into (by length: an empty one and one of MaxLen
\* bytes) and writes from.
BufLens == {0, MaxLen}
VecLens == {<<>>} \cup {<<0, a>> : a \in BufLens}
WriteBufs == {<<>>, <<104>>}

\* The state before construction: a resource and an environment.
Init ==
    /\ env \in Envs
    /\ inner \in Resources
    /\ kind = "none"
    /\ ctor = "-"
    /\ aborted = FALSE
    /\ read_config = None
    /\ write_config = None
    /\ probes = <<>>
    /\ last = NoOp
    /\ resets = 0

\* A constructor c of decorator k that ran the probe d: the decorator is
\* installed, or the process aborted in the probe.
Construct(k, c, d) ==
    /\ probes' = d.log
    /\ kind' = k
    /\ ctor' = c
    /\ aborted' = d.panic
    /\ read_config' = IF d.panic THEN None ELSE d.rc
    /\ write_config' = IF d.panic THEN None ELSE d.wc
    /\ UNCHANGED <<env, inner, last, resets>>

\* A conservative constructor that stores a default write config.
NoProbe_default_config ==
    [rc |-> None, wc |-> Some(WriteConfig(TerminalColorSupport_default, FALSE)),
     log |-> <<>>, panic |-> FALSE]

NoProbe == [rc |-> None, wc |-> None, log |-> <<>>, panic |-> FALSE]

\* TerminalDuplexer::with_handle
DuplexerWithHandle ==
    /\ kind = "none"
    /\ Construct("TerminalDuplexer", "with_handle", detect_read_write_config(env, inner))

\* TerminalDuplexer::generic
DuplexerGeneric ==
    /\ kind = "none"
    /\ Construct("TerminalDuplexer", "generic", NoProbe)

\* TerminalReader::with_handle (the resource has a single handle)
ReaderWithHandle ==
    /\ kind = "none"
    /\ inner.rh = inner.wh
    /\ LET d == detect_read_config(env, inner, inner.rh)
       IN Construct("TerminalReader", "with_handle",
                    [rc |-> d.cfg, wc |-> None, log |-> d.log, panic |-> d.panic])

\* TerminalReader::generic
ReaderGeneric ==
    /\ kind = "none"
    /\ inner.rh = inner.wh
    /\ Construct("TerminalReader", "generic", NoProbe)

\* TerminalWriter::with_handle (the resource has a single handle)
WriterWithHandle ==
    /\ kind = "none"
    /\ inner.rh = inner.wh
    /\ LET d == detect_write_config(env, inner, inner.wh)
       IN Construct("TerminalWriter", "with_handle",
                    [rc |-> None, wc |-> d.cfg, log |-> d.log, panic |-> d.panic])

\* TerminalWriter::from
WriterFrom ==
    /\ kind = "none"
    /\ inner.rh = inner.wh
    /\ \E is_terminal \in BOOLEAN, cs \in TerminalColorSupport, cp \in BOOLEAN :
        Construct("TerminalWriter", "from",
                  [rc |-> None,
                   wc |-> IF is_terminal THEN Some(WriteConfig(cs, cp)) ELSE None,
                   log |-> <<>>, panic |-> FALSE])

\* TerminalWriter::generic
WriterGeneric ==
    /\ kind = "none"
    /\ inner.rh = inner.wh
    /\ Construct("TerminalWriter", "generic", NoProbe)

\* NeverTerminalReader::new (the resource has a single handle)
NeverReaderNew ==
    /\ kind = "none"
    /\ inner.rh = inner.wh
    /\ Construct("NeverTerminalReader", "new", NoProbe)

\* NeverTerminalWriter::new (the resource has a single handle)
NeverWriterNew ==
    /\ kind = "none"
    /\ inner.rh = inner.wh
    /\ Construct("NeverTerminalWriter", "new", NoProbe)

\* NeverTerminalDuplexer::new
NeverDuplexerNew ==
    /\ kind = "none"
    /\ Construct("NeverTerminalDuplexer", "new", NoProbe)

\* An operation that forgets the write config once it has written a reset.
Complete_reprobe(op, lens, r, o) ==
    /\ last' = [op |-> op, lens |-> lens, inner |-> r, ret |-> o.ret, events |-> o.events]
    /\ resets' = resets + Cardinality(ResetWrites(o.events))
    /\ write_config' = IF ResetWrites(o.events) = {} THEN write_config ELSE None
    /\ UNCHANGED <<env, kind, ctor, aborted, read_config, probes>>

\* An operation of the decorator that returned o after the inner call
\* returned r.
Complete(op, lens, r, o) ==
    /\ last' = [op |-> op, lens |-> lens, inner |-> r, ret |-> o.ret, events |-> o.events]
    /\ resets' = resets + Cardinality(ResetWrites(o.events))
    /\ UNCHANGED <<env, kind, ctor, aborted, read_config, write_config, probes>>

DuplexerRead ==
    /\ kind = "TerminalDuplexer" /\ ~aborted
    /\ resets < MaxResets
    /\ \E len \in BufLens : \E r \in InnerRead(inner, len) :
     \E o \in {read(len, r, w) : w \in ResetWrite} :
        /\ inner' = [inner EXCEPT !.input = InputAfter(inner, "read", len, r)]
        /\ Complete("read", <<len>>, r, o)

DuplexerReadVectored ==
    /\ kind = "TerminalDuplexer" /\ ~aborted
    /\ resets < MaxResets
    /\ \E lens \in VecLens :
       LET total == IF Len(lens) = 0 THEN 0 ELSE lens[Len(lens)]
       IN \E r \in InnerRead(inner, total) :
         \E o \in {read_vectored(lens, r, w) : w \in ResetWrite} :
            /\ inner' = [inner EXCEPT !.input = InputAfter(inner, "read_vectored", total, r)]
            /\ Complete("read_vectored", lens, r, o)

DuplexerReadToEnd ==
    /\ kind = "TerminalDuplexer" /\ ~aborted
    /\ resets < MaxResets
    /\ \E r \in InnerReadToEnd(inner) :
     \E o \in {read_to_end(r, w) : w \in ResetWrite} :
        /\ inner' = [inner EXCEPT !.input = InputAfter(inner, "read_to_end", 0, r)]
        /\ Complete("read_to_end", <<>>, r, o)

DuplexerReadToString ==
    /\ kind = "TerminalDuplexer" /\ ~aborted
    /\ resets < MaxResets
    /\ \E r \in InnerReadToString(inner) :
     \E o \in {read_to_string(r, w) : w \in ResetWrite} :
        /\ inner' = [inner EXCEPT !.input = InputAfter(inner, "read_to_string", 0, r)]
        /\ Complete("read_to_string", <<>>, r, o)

DuplexerReadExact ==
    /\ kind = "TerminalDuplexer" /\ ~aborted
    /\ resets < MaxResets
    /\ \E len \in BufLens : \E r \in InnerReadExact(inner, len) :
     \E o \in {read_exact(len, r, w) : w \in ResetWrite} :
        /\ inner' = [inner EXCEPT !.input = InputAfter(inner, "read_exact", len, r)]
        /\ Complete("read_exact", <<len>>, r, o)

DuplexerWrite ==
    /\ kind = "TerminalDuplexer" /\ ~aborted
    /\ \E buf \in WriteBufs : \E w \in InnerWrite(buf) :
        /\ Complete("write", <<Len(buf)>>, w, write(buf, w))
        /\ UNCHANGED inner

DuplexerFlush ==
    /\ kind = "TerminalDuplexer" /\ ~aborted
    /\ \E w \in InnerFlush :
        /\ Complete("flush", <<>>, w, flush(w))
        /\ UNCHANGED inner

\* read of TerminalReader, NeverTerminalReader, NeverTerminalDuplexer
ForwardRead ==
    /\ kind \in ReadForwarders /\ ~aborted
    /\ \E len \in BufLens : \E r \in InnerRead(inner, len) :
        /\ inner' = [inner EXCEPT !.input = InputAfter(inner, "read", len, r)]
        /\ Complete("read", <<len>>, r, forward("read", <<>>, r))

\* read_vectored of the same wrappers
ForwardReadVectored ==
    /\ kind \in ReadForwarders /\ ~aborted
    /\ \E lens \in VecLens :
       LET total == IF Len(lens) = 0 THEN 0 ELSE lens[Len(lens)]
       IN \E r \in InnerRead(inner, total) :
            /\ inner' = [inner EXCEPT !.input = InputAfter(inner, "read_vectored", total, r)]
            /\ Complete("read_vectored", lens, r, forward("read_vectored", <<>>, r))

\* read_to_end of the same wrappers
ForwardReadToEnd ==
    /\ kind \in ReadForwarders /\ ~aborted
    /\ \E r \in InnerReadToEnd(inner) :
        /\ inner' = [inner EXCEPT !.input = InputAfter(inner, "read_to_end", 0, r)]
        /\ Complete("read_to_end", <<>>, r, forward("read_to_end", <<>>, r))

\* read_to_string of the same wrappers
ForwardReadToString ==
    /\ kind \in ReadForwarders /\ ~aborted
    /\ \E r \in InnerReadToString(inner) :
        /\ inner' = [inner EXCEPT !.input = InputAfter(inner, "read_to_string", 0, r)]
        /\ Complete("read_to_string", <<>>, r, forward("read_to_string", <<>>, r))

\* read_exact of the same wrappers
ForwardReadExact ==
    /\ kind \in ReadForwarders /\ ~aborted
    /\ \E len \in BufLens : \E r \in InnerReadExact(inner, len) :
        /\ inner' = [inner EXCEPT !.input = InputAfter(inner, "read_exact", len, r)]
        /\ Complete("read_exact", <<len>>, r, forward("read_exact", <<>>, r))

\* write of TerminalWriter, NeverTerminalWriter, NeverTerminalDuplexer
ForwardWrite ==
    /\ kind \in WriteForwarders /\ ~aborted
    /\ \E buf \in WriteBufs : \E w \in InnerWrite(buf) :
        /\ Complete("write", <<Len(buf)>>, w, forward("write", buf, w))
        /\ UNCHANGED inner

\* flush of the same wrappers
ForwardFlush ==
    /\ kind \in WriteForwarders /\ ~aborted
    /\ \E w \in InnerFlush :
        /\ Complete("flush", <<>>, w, forward("flush", <<>>, w))
        /\ UNCHANGED inner

Next ==
    \/ DuplexerWithHandle
    \/ DuplexerGeneric
    \/ ReaderWithHandle
    \/ ReaderGeneric
    \/ WriterWithHandle
    \/ WriterFrom
    \/ WriterGeneric
    \/ NeverReaderNew
    \/ NeverWriterNew
    \/ NeverDuplexerNew
    \/ DuplexerRead
    \/ DuplexerReadVectored
    \/ DuplexerReadToEnd
    \/ DuplexerReadToString
    \/ DuplexerReadExact
    \/ DuplexerWrite
    \/ DuplexerFlush
    \/ ForwardRead
    \/ ForwardReadVectored
    \/ ForwardReadToEnd
    \/ ForwardReadToString
    \/ ForwardReadExact
    \/ ForwardWrite
    \/ ForwardFlush

Spec == Init /\ [][Next]_vars

(***************************************************************************)
(* Properties                                                              *)
(***************************************************************************)
BuiltWithHandle(k) == kind = k /\ ctor = "with_handle"

\* The last operation was a read of the duplexer that reported end-of-stream
\* to its caller.
EofObserved ==
    /\ kind = "TerminalDuplexer"
    /\ \/ /\ last.op \in {"read", "read_vectored"}
          /\ last.ret = Ok(0)
          /\ \E i \in 1..Len(last.lens) : last.lens[i] # 0
       \/ last.op = "read_exact" /\ last.ret = Err("UnexpectedEof")
       \/ last.op \in {"read_to_end", "read_to_string"} /\ last.ret.ok

\* C1: when the duplexer reports an output terminal, a read operation that
\* observes end-of-stream makes exactly two calls on the inner resource: the
\* inner read first, then one write of the reset sequence, and only then
\* returns.
C1_ResetOnEof ==
    (EofObserved /\ is_output_terminal) =>
        /\ Len(last.events) = 2
        /\ last.events[1].call = last.op
        /\ ResetWrites(last.events) = {2}

C1_Witness ==
    /\ EofObserved
    /\ is_output_terminal
    /\ last.op = "read_exact"
    /\ ResetWrites(last.events) = {2}

\* C2: a duplexer built by with_handle over a resource whose write side is
\* not a terminal never writes the reset sequence.
C2_NoResetOnNonTerminalWriteSide ==
    (BuiltWithHandle("TerminalDuplexer") /\ ~inner.wtty) => resets = 0

\* The inner read of the duplexer's last operation reported end-of-stream.
InnerEof ==
    /\ kind = "TerminalDuplexer"
    /\ \/ /\ last.op \in {"read", "read_vectored"}
          /\ last.inner = Ok(0)
          /\ \E i \in 1..Len(last.lens) : last.lens[i] # 0
       \/ last.op = "read_exact" /\ last.inner = Err("UnexpectedEof")
       \/ last.op \in {"read_to_end", "read_to_string"} /\ last.inner.ok

\* C3: the result returned by a read whose inner read reported end-of-stream
\* is the result of that inner read, whether the reset write succeeded or
\* failed.
C3_ResetFailureDiscarded ==
    InnerEof => last.ret = last.inner

C3_Witness ==
    /\ InnerEof
    /\ last.op = "read_exact"
    /\ \E i \in ResetWrites(last.events) : ~last.events[i].ret.ok
    /\ last.ret = last.inner

\* Terminal-ness queries among the probes of the constructor.
TerminalCheckCount ==
    Cardinality({i \in 1..Len(probes) : probes[i].call \in TerminalChecks})
TerminfoConsulted == \E i \in 1..Len(probes) : probes[i].call = "terminfo"

\* C4: when the two sides of the resource are distinct, with_handle gives the
\* duplexer the read config of the read-side handle and the write config of
\* the write-side handle.
C4_IndependentProbes ==
    (BuiltWithHandle("TerminalDuplexer") /\ ~aborted /\ inner.rh # inner.wh) =>
        /\ read_config = detect_read_config(env, inner, inner.rh).cfg
        /\ write_config = detect_write_config(env, inner, inner.wh).cfg

\* C5: when the two sides are aliased and the read probe reports no
\* terminal, the write config is the one a full detect_write_config of the
\* write side gives, and the queries of that probe (its terminal-ness check
\* included) follow those of the read probe.
C5_AliasedNonTerminalReadFullWriteProbe ==
    (/\ BuiltWithHandle("TerminalDuplexer")
     /\ inner.rh = inner.wh
     /\ ~is_some(detect_read_config(env, inner, inner.rh).cfg)) =>
        LET r == detect_read_config(env, inner, inner.rh)
            w == detect_write_config(env, inner, inner.wh)
        IN /\ ~aborted
           /\ write_config = w.cfg
           /\ probes = r.log \o w.log
           /\ env.platform = "posix" =>
                 \E i \in 1..Len(probes) : probes[i] = Call("isatty", inner.wh)
           /\ (env.platform = "windows" /\ inner.wh \in {stdout, stderr}) =>
                 \E i \in 1..Len(probes) : probes[i] = Call("atty", inner.wh)

C5_Witness ==
    /\ BuiltWithHandle("TerminalDuplexer")
    /\ inner.rh = inner.wh
    /\ ~is_input_terminal
    /\ is_output_terminal
    /\ env.no_color
    /\ ~color_preference

\* C6: when the two sides are aliased and the read probe reports a terminal,
\* the constructor makes exactly one terminal-ness query.
C6_AliasedTerminalOneCheck ==
    (/\ BuiltWithHandle("TerminalDuplexer")
     /\ inner.rh = inner.wh
     /\ is_some(detect_read_config(env, inner, inner.rh).cfg)) =>
        TerminalCheckCount = 1

C6_Witness ==
    /\ BuiltWithHandle("TerminalDuplexer")
    /\ ~aborted
    /\ inner.rh = inner.wh
    /\ inner.rh = stdout
    /\ is_input_terminal
    /\ is_output_terminal
    /\ color_support = "ColorCube256"
    /\ TerminalCheckCount = 1

Decorators == {"TerminalReader", "TerminalWriter", "TerminalDuplexer"}

\* C7: a reader or writer built by with_handle over a handle that is not a
\* terminal has an absent config, and a decorator with an absent config
\* answers every query with the safe default.
C7_AbsentConfigSafeDefaults ==
    /\ (BuiltWithHandle("TerminalReader") /\ ~Isatty(inner, inner.rh)) =>
          read_config = None
    /\ (BuiltWithHandle("TerminalWriter") /\ ~Isatty(inner, inner.wh)) =>
          write_config = None
    /\ (kind \in Decorators /\ read_config = None) =>
          ~is_input_terminal /\ ~is_line_by_line
    /\ (kind \in Decorators /\ write_config = None) =>
          ~is_output_terminal /\ color_support = "Monochrome" /\ ~color_preference
    /\ kind \in Decorators => (is_line_by_line => is_input_terminal)
    /\ kind \in Decorators =>
          ((color_support # "Monochrome" \/ color_preference) => is_output_terminal)

C7_Witness ==
    /\ BuiltWithHandle("TerminalWriter")
    /\ ~aborted
    /\ inner.wh = stdout
    /\ ~Isatty(inner, inner.wh)
    /\ env.terminfo.max_colors = Some(256)
    /\ ~env.no_color
    /\ write_config = None
    /\ color_support = "Monochrome"

\* The handle whose write config a with_handle constructor detects.
ProbedWriteHandle ==
    IF kind = "TerminalDuplexer" THEN unsafe_write_handle(inner) ELSE inner.wh
DetectsWriteConfig ==
    BuiltWithHandle("TerminalWriter") \/ BuiltWithHandle("TerminalDuplexer")

\* C8: on the not(windows) build, probing standard output when it is a
\* terminal consults the capability database, and a reported color count is
\* mapped -1 to Monochrome, 8 to Classic8, 256 to ColorCube256 while any
\* other count aborts the process; detection never yields TrueColor.
C8_ColorCountMapping ==
    /\ (/\ DetectsWriteConfig
        /\ env.platform = "posix"
        /\ ProbedWriteHandle = stdout
        /\ Isatty(inner, stdout)) => TerminfoConsulted
    /\ (TerminfoConsulted /\ env.terminfo.db /\ is_some(env.terminfo.max_colors)) =>
          LET num == unwrap(env.terminfo.max_colors)
          IN CASE num = -1 -> ~aborted /\ color_support = "Monochrome"
               [] num = 8 -> ~aborted /\ color_support = "Classic8"
               [] num = 256 -> ~aborted /\ color_support = "ColorCube256"
               [] OTHER -> aborted
    /\ DetectsWriteConfig => color_support # "TrueColor"

C8_Witness ==
    /\ BuiltWithHandle("TerminalWriter")
    /\ inner.wh = stdout
    /\ TerminfoConsulted
    /\ env.terminfo.max_colors = Some(16)
    /\ aborted

\* C9 as stated: every terminal handle other than standard output gets a
\* present write config with color_support Monochrome.
C9_OtherTerminalsMonochrome ==
    (/\ DetectsWriteConfig
     /\ ~aborted
     /\ is_output_terminal
     /\ ProbedWriteHandle # stdout) => color_support = "Monochrome"

\* C9 (amended): on the not(windows) build every terminal handle other than
\* standard output gets a present write config with color_support
\* Monochrome; on the windows build every detected write config has
\* color_support Classic8.
C9_OtherTerminalsPerPlatform ==
    /\ (/\ DetectsWriteConfig
        /\ env.platform = "posix"
        /\ Isatty(inner, ProbedWriteHandle)
        /\ ProbedWriteHandle # stdout) =>
          /\ ~aborted
          /\ is_output_terminal
          /\ color_support = "Monochrome"
    /\ (/\ DetectsWriteConfig
        /\ env.platform = "windows"
        /\ is_output_terminal) => color_support = "Classic8"

C9_Witness ==
    /\ BuiltWithHandle("TerminalWriter")
    /\ env.platform = "posix"
    /\ inner.wh = stderr
    /\ is_output_terminal
    /\ color_support = "Monochrome"
    /\ env.terminfo.max_colors = Some(256)

\* C10: the detected color_preference is true exactly when the probed handle
\* is standard output or standard error, is a terminal, and NO_COLOR is
\* absent; and the color_support detected for standard output does not
\* depend on NO_COLOR.
C10_ColorPreference ==
    (/\ BuiltWithHandle("TerminalWriter")
        \/ (BuiltWithHandle("TerminalDuplexer") /\ inner.rh = inner.wh)
     /\ ~aborted) =>
        /\ color_preference <=>
              /\ ProbedWriteHandle \in {stdout, stderr}
              /\ Isatty(inner, ProbedWriteHandle)
              /\ ~env.no_color
        /\ (ProbedWriteHandle = stdout /\ is_output_terminal) =>
              color_support =
                  unwrap(detect_write_config(
                      [env EXCEPT !.no_color = ~env.no_color], inner, stdout).cfg
                  ).color_support

\* C11: on the not(windows) build, when standard output is a terminal and the
\* capability database cannot be loaded or has no color count, detection
\* does not abort and gives a present write config with Monochrome.
C11_FailedLookupIsAbsentCount ==
    (/\ BuiltWithHandle("TerminalWriter")
     /\ env.platform = "posix"
     /\ ProbedWriteHandle = stdout
     /\ Isatty(inner, stdout)
     /\ (~env.terminfo.db \/ ~is_some(env.terminfo.max_colors))) =>
        /\ ~aborted
        /\ is_output_terminal
        /\ color_support = "Monochrome"

Wrappers == Decorators \cup NeverTerminals

\* The five capability answers of the installed wrapper.
Answers ==
    [is_input_terminal |-> wrapper_is_input_terminal,
     is_line_by_line |-> wrapper_is_line_by_line,
     is_output_terminal |-> wrapper_is_output_terminal,
     color_support |-> wrapper_color_support,
     color_preference |-> wrapper_color_preference]
NotATerminal ==
    [is_input_terminal |-> FALSE,
     is_line_by_line |-> FALSE,
     is_output_terminal |-> FALSE,
     color_support |-> "Monochrome",
     color_preference |-> FALSE]

\* C12: a wrapper built by generic(), and every NeverTerminal* wrapper,
\* answers every capability query with not-a-terminal in every state of its
\* lifetime and has made no reset write.
C12_ConservativeWrappersNeverTerminal ==
    (kind \in Wrappers /\ (ctor = "generic" \/ kind \in NeverTerminals)) =>
        /\ Answers = NotATerminal
        /\ resets = 0
        /\ ResetWrites(last.events) = {}

C12_Witness ==
    /\ kind = "TerminalDuplexer"
    /\ ctor = "generic"
    /\ inner.rtty /\ inner.wtty /\ inner.canon
    /\ inner.wh = stdout
    /\ env.terminfo.max_colors = Some(256)
    /\ ~env.no_color
    /\ last.op = "read_to_end"
    /\ last.ret.ok
    /\ Answers = NotATerminal
    /\ resets = 0

\* A step of a constructed wrapper that leaves its configs, its probes and
\* its capability answers as they were.
ConfigFrozenStep ==
    kind \in Wrappers =>
        /\ read_config' = read_config
        /\ write_config' = write_config
        /\ probes' = probes
        /\ Answers' = Answers

\* C13: once a wrapper is constructed, no operation changes read_config or
\* write_config or probes the handle again, so the five capability answers
\* after every step are the answers before it.
C13_ConfigFrozen == [][ConfigFrozenStep]_vars

C13_Witness ==
    /\ BuiltWithHandle("TerminalDuplexer")
    /\ resets = MaxResets
    /\ is_some(read_config)
    /\ is_some(write_config)
    /\ read_config = detect_read_write_config(env, inner).rc
    /\ write_config = detect_read_write_config(env, inner).wc
    /\ probes = detect_read_write_config(env, inner).log

OperationDone == kind \in Wrappers /\ last.op # NoOp.op

\* C14 as stated: every operation of every wrapper returns what the inner
\* call returned and makes that one call on the inner resource and no other.
C14_SameAsDirectCall ==
    OperationDone =>
        /\ last.ret = last.inner
        /\ Len(last.events) = 1
        /\ last.events[1].call = last.op
        /\ last.events[1].ret = last.inner

\* C14 amended: every operation of every wrapper returns what the inner call
\* returned and makes that one call on the inner resource first; the only
\* further call is the one write of the reset sequence, made by a read of a
\* TerminalDuplexer whose inner read reported end-of-stream while
\* is_output_terminal() is true.
C14_SameAsDirectCallExceptReset ==
    OperationDone =>
        /\ last.ret = last.inner
        /\ last.events[1].call = last.op
        /\ last.events[1].ret = last.inner
        /\ IF InnerEof /\ is_output_terminal
           THEN Len(last.events) = 2 /\ ResetWrites(last.events) = {2}
           ELSE Len(last.events) = 1

C14_Witness ==
    /\ InnerEof
    /\ is_output_terminal
    /\ last.op = "read_to_string"
    /\ last.ret = last.inner
    /\ last.events[1].call = "read_to_string"
    /\ Len(last.events) = 2

\* C15: a TerminalDuplexer with a terminal output side writes the reset
\* sequence at most once in its lifetime, however many reads observe
\* end-of-stream.
C15_ResetOnceInLifetime ==
    (kind = "TerminalDuplexer" /\ is_output_terminal /\ inner.wtty) => resets <= 1

\* C16: a write of the reset sequence that did not fail has handed the inner
\* resource all of the sequence's bytes.
C16_CompleteResetSequence ==
    (kind = "TerminalDuplexer") =>
        \A i \in ResetWrites(last.events) :
            last.events[i].ret.ok => last.events[i].ret.n = Len(ResetSeq)

\* The wrappers that implement WriteTerminal.
WriteTerminals == WriteForwarders \cup {"TerminalDuplexer"}

\* C17: for every WriteTerminal implementation, color_default() is true
\* exactly when the wrapper holds a write config whose color support is not
\* Monochrome and whose color preference is true; it is false for every
\* NeverTerminal* wrapper and for every wrapper that is not an output terminal.
C17_ColorDefault ==
    kind \in WriteTerminals =>
        /\ color_default <=>
               /\ kind \notin NeverTerminals
               /\ is_some(write_config)
               /\ unwrap(write_config).color_support # "Monochrome"
               /\ unwrap(write_config).color_preference
        /\ ~wrapper_is_output_terminal => ~color_default

C17_Witness ==
    /\ kind = "TerminalWriter"
    /\ wrapper_is_output_terminal
    /\ wrapper_color_support = "ColorCube256"
    /\ wrapper_color_preference
    /\ color_default

WriteCalls(events) == {i \in 1..Len(events) : events[i].call = "write"}
FlushCalls(events) == {i \in 1..Len(events) : events[i].call = "flush"}
ReadOps == {"read", "read_vectored", "read_to_end", "read_to_string", "read_exact"}
NoReset == ResetWrites(last.events) = {}

\* C18: a TerminalDuplexer makes no reset write in a read or read_vectored
\* that returns n > 0 or that is given only empty buffers, in a read
\* operation that fails (other than read_exact failing with UnexpectedEof),
\* in a read_exact that succeeds, or in a write or flush; and a read
\* operation makes at most one write call and no flush call on the inner
\* resource.
C18_ResetOnlyOnEof ==
    (kind = "TerminalDuplexer" /\ last.op # NoOp.op) =>
        /\ (last.op \in {"read", "read_vectored"} /\ last.ret.ok /\ last.ret.n > 0)
               => NoReset
        /\ (/\ last.op \in {"read", "read_vectored"}
            /\ \A i \in 1..Len(last.lens) : last.lens[i] = 0) => NoReset
        /\ (last.op \in ReadOps \ {"read_exact"} /\ ~last.ret.ok) => NoReset
        /\ (last.op = "read_exact" /\ last.ret # Err("UnexpectedEof")) => NoReset
        /\ (last.op \in {"write", "flush"}) =>
               NoReset /\ Len(last.events) = 1
        /\ (last.op \in ReadOps) =>
               /\ Cardinality(WriteCalls(last.events)) <= 1
               /\ FlushCalls(last.events) = {}
               /\ WriteCalls(last.events) = ResetWrites(last.events)

C18_Witness ==
    /\ kind = "TerminalDuplexer"
    /\ is_output_terminal
    /\ last.op = "read"
    /\ last.lens = <<0>>
    /\ last.ret = Ok(0)
    /\ NoReset
    /\ inner.input = 0

====
